---- MODULE Spec2Model ----
(***************************************************************************)
(* A model of json-parser-rs: the scanner (src/src/tokenize.rs), the       *)
(* recursive-descent parser (src/src/parse.rs), the value type and         *)
(* Value::from_str (src/src/json.rs) and the error type (src/src/error.rs).*)
(*                                                                         *)
(* Text is a sequence of bytes, each byte a one-character string; the one  *)
(* two-byte character of the model is U+00E9, the bytes "C3" "A9".         *)
(* A cursor `p = &p[n..]` is the number of bytes already sliced off.       *)
(***************************************************************************)
EXTENDS Integers, Sequences, FiniteSets, TLC

VARIABLES
    input,      \* the &str given to tokenize / Value::from_str
    pos,        \* tokenize's cursor p, as the number of bytes of input consumed
    tokens,     \* tokenize's local Vec<Token>
    arm,        \* the match arm the last iteration of tokenize's loop took
    prev,       \* the cursor before that iteration
    tokResult,  \* what tokenize returned (None while it runs)
    slice,      \* the &[Token] given to parse / parse_value
    rest,       \* the caller's cursor after parse_value(&mut tokens)
    call,       \* the entry point the caller used
    result,     \* what parse / parse_value / from_str returned
    pc          \* "scan", "tokenized", "build", "done"

vars == <<input, pos, tokens, arm, prev, tokResult, slice, rest, call, result, pc>>

----------------------------------------------------------------------------
(* Bounds of the model.                                                    *)

\* the source text is a concatenation of at most MaxPieces lexeme pieces
MaxPieces == 3
\* a caller-built token slice holds at most MaxTokens tokens
MaxTokens == 6
\* a caller-built flat object holds at most MaxMembers members
MaxMembers == 3

----------------------------------------------------------------------------
(* Results and errors (src/src/error.rs).                                  *)

None == [tag |-> "None"]
Ok(v) == [tag |-> "Ok", val |-> v]
Err(e) == [tag |-> "Err", err |-> e]
\* a panic of the thread: no Result is returned
Panic == [tag |-> "Panic"]

UnexpectedEnd == [kind |-> "UnexpectedEnd"]
UnexpectedChar(c) == [kind |-> "UnexpectedChar", arg |-> c]
UnexpectedToken(t) == [kind |-> "UnexpectedToken", arg |-> t]
\* parse.rs:9 names a variant that error.rs does not declare
UnexpectedNonWhitespace == [kind |-> "UnexpectedNonWhitespace"]

----------------------------------------------------------------------------
(* Tokens (tokenize.rs:6-18).                                              *)

Tok(k) == [kind |-> k]
NumberTok(n) == [kind |-> "Number", n |-> n]
StringTok(s) == [kind |-> "String", s |-> s]

StructuralKinds ==
    {"BeginArray", "BeginObject", "EndArray", "EndObject",
     "NameSeparator", "ValueSeparator"}

\* Token's Display: structural tokens and keywords render as their text;
\* the rendering of a payload token keeps its payload.
TokenToString(t) ==
    CASE t.kind = "BeginArray" -> [text |-> <<"[">>]
      [] t.kind = "EndArray" -> [text |-> <<"]">>]
      [] t.kind = "BeginObject" -> [text |-> <<"{">>]
      [] t.kind = "EndObject" -> [text |-> <<"}">>]
      [] t.kind = "NameSeparator" -> [text |-> <<":">>]
      [] t.kind = "ValueSeparator" -> [text |-> <<",">>]
      [] t.kind = "False" -> [text |-> <<"f", "a", "l", "s", "e">>]
      [] t.kind = "Null" -> [text |-> <<"n", "u", "l", "l">>]
      [] t.kind = "True" -> [text |-> <<"t", "r", "u", "e">>]
      [] t.kind = "Number" -> [num |-> t.n]
      [] t.kind = "String" -> [str |-> t.s]

----------------------------------------------------------------------------
(* Characters of a &str.                                                   *)

\* the whitespace arm without the carriage return
WhitespaceWithoutCR == {" ", "\t", "\n"}

\* b' ' | b'\t' | b'\n' | b'\r'
Whitespace == {" ", "\t", "\n", "\r"}
Digits == {"0", "1", "2", "3", "4", "5", "6", "7", "8", "9"}

\* p.chars().next() for the bytes p: the character and its len_utf8()
FirstChar(p) ==
    IF p = <<>> THEN [some |-> FALSE]
    ELSE IF p[1] = "C3" THEN [some |-> TRUE, c |-> "U+00E9", len |-> 2]
    ELSE [some |-> TRUE, c |-> p[1], len |-> 1]

\* &p[n..]
From(p, n) == SubSeq(p, n + 1, Len(p))

\* iter.peek() after cnt one-byte characters were taken
Peek(p, cnt) == FirstChar(From(p, cnt))

PeekIn(p, cnt, S) == Peek(p, cnt).some /\ Peek(p, cnt).c \in S

DigitValue(c) ==
    CASE c = "0" -> 0 [] c = "1" -> 1 [] c = "2" -> 2 [] c = "3" -> 3
      [] c = "4" -> 4 [] c = "5" -> 5 [] c = "6" -> 6 [] c = "7" -> 7
      [] c = "8" -> 8 [] c = "9" -> 9

----------------------------------------------------------------------------
(* str::parse::<f64>() as expect_number uses it (tokenize.rs:133).         *)
(* The standard library accepts                                            *)
(*   Sign? ( Digit+ | Digit+ '.' Digit* | Digit* '.' Digit+ ) Exp?         *)
(*   Exp ::= 'e' Sign? Digit+                                              *)
(* The value is the decimal number sign * mant * 10^exp with mant free of  *)
(* trailing zeros; within the bounds no lexeme reaches the range where     *)
(* f64 rounds two such numbers together.                                   *)

RECURSIVE DigitRun(_, _)
\* the number of digits of s from index i (1-based) on
DigitRun(s, i) ==
    IF i <= Len(s) /\ s[i] \in Digits THEN 1 + DigitRun(s, i + 1) ELSE 0

RECURSIVE DigitsValue(_)
DigitsValue(s) ==
    IF s = <<>> THEN 0
    ELSE 10 * DigitsValue(SubSeq(s, 1, Len(s) - 1)) + DigitValue(s[Len(s)])

RECURSIVE Normalize(_, _, _)
Normalize(neg, mant, exp) ==
    IF mant = 0 THEN [neg |-> neg, mant |-> 0, exp |-> 0]
    ELSE IF mant % 10 = 0 THEN Normalize(neg, mant \div 10, exp + 1)
    ELSE [neg |-> neg, mant |-> mant, exp |-> exp]

\* the n digits of the exponent from index j of s, which must end s
F64ExpDigits(s, neg, j, n) ==
    IF n >= 1 /\ j + n = Len(s) + 1
    THEN [ok |-> TRUE,
          exp |-> (IF neg THEN -1 ELSE 1) * DigitsValue(SubSeq(s, j, j + n - 1))]
    ELSE [ok |-> FALSE]

F64ExpSigned(s, neg, j) == F64ExpDigits(s, neg, j, DigitRun(s, j))

\* Exp? from index i of s to its end: 'e' Sign? Digit+
F64Exponent(s, i) ==
    IF i > Len(s) THEN [ok |-> TRUE, exp |-> 0]
    ELSE IF s[i] \notin {"e", "E"} THEN [ok |-> FALSE]
    ELSE IF i + 1 <= Len(s) /\ s[i + 1] \in {"-", "+"}
    THEN F64ExpSigned(s, s[i + 1] = "-", i + 2)
    ELSE F64ExpSigned(s, FALSE, i + 1)

\* the value of the digits int and frac around the point with the exponent e
F64Value(neg, int, frac, e) ==
    IF Len(int) + Len(frac) >= 1 /\ e.ok
    THEN [ok |-> TRUE,
          val |-> Normalize(neg, DigitsValue(int \o frac), e.exp - Len(frac))]
    ELSE [ok |-> FALSE]

F64Finish(s, neg, int, frac, i) == F64Value(neg, int, frac, F64Exponent(s, i))

\* the point at index k of s and the nf digits after it
F64Frac(s, neg, i, k, nf) ==
    F64Finish(s, neg, SubSeq(s, i, k - 1), SubSeq(s, k + 1, k + nf), k + 1 + nf)

\* the digits from index i of s end before index k
F64Point(s, neg, i, k) ==
    IF k <= Len(s) /\ s[k] = "."
    THEN F64Frac(s, neg, i, k, DigitRun(s, k + 1))
    ELSE F64Finish(s, neg, SubSeq(s, i, k - 1), <<>>, k)

\* Digit* ('.' Digit*)? Exp? from index i of s on
F64Number(s, neg, i) == F64Point(s, neg, i, i + DigitRun(s, i))

ParseF64(s) ==
    IF Len(s) >= 1 /\ s[1] \in {"-", "+"}
    THEN F64Number(s, s[1] = "-", 2)
    ELSE F64Number(s, FALSE, 1)

\* the f64 of a small natural number, for tokens a caller builds
F64(k) == Normalize(FALSE, k, 0)

----------------------------------------------------------------------------
(* The scanner (tokenize.rs).                                              *)

RECURSIVE SkipDigits(_, _)
\* while let Some('0'..='9') = iter.peek() { iter.next(); cnt += 1; }
SkipDigits(p, cnt) ==
    IF PeekIn(p, cnt, Digits) THEN SkipDigits(p, cnt + 1) ELSE cnt

\* if let Some('-') = iter.peek()
AfterMinus(p) == IF PeekIn(p, 0, {"-"}) THEN 1 ELSE 0

\* if let Some('.') = iter.peek(): the point and the digits after it
AfterFrac(p, cnt) ==
    IF PeekIn(p, cnt, {"."}) THEN SkipDigits(p, cnt + 1) ELSE cnt

\* if let Some('e') = iter.peek(): the e, a sign and the digits after it
AfterExp(p, cnt) ==
    IF PeekIn(p, cnt, {"e"})
    THEN SkipDigits(p, IF PeekIn(p, cnt + 1, {"+", "-"})
                       THEN cnt + 2 ELSE cnt + 1)
    ELSE cnt

\* the byte count expect_number captures before it parses
NumberRun(p) == AfterExp(p, AfterFrac(p, SkipDigits(p, AfterMinus(p))))

\* let n = s.parse().unwrap(); Ok((cnt, n))
NumberOf(cnt, n) ==
    IF n.ok THEN [tag |-> "Ok", cnt |-> cnt, n |-> n.val] ELSE Panic

\* let s = &input[..cnt];
ParseCaptured(p, cnt) == NumberOf(cnt, ParseF64(SubSeq(p, 1, cnt)))

ExpectNumber(p) == ParseCaptured(p, NumberRun(p))

RECURSIVE StringLoop(_, _)
\* the loop of expect_string with cnt bytes taken
StringLoop(p, cnt) ==
    LET ch == FirstChar(From(p, cnt))
    IN  IF ~ch.some THEN Err(UnexpectedEnd)
        ELSE IF ch.c = "\"" THEN
            [tag |-> "Ok", cnt |-> cnt + 1, s |-> SubSeq(p, 2, cnt)]
        ELSE StringLoop(p, cnt + ch.len)

ExpectString(p) ==
    LET ch == FirstChar(p)
    IN  IF ~ch.some THEN Err(UnexpectedEnd)
        ELSE IF ch.c # "\"" THEN Err(UnexpectedToken(ch.c))
        ELSE StringLoop(p, 1)

RECURSIVE ExpectWord(_, _)

RECURSIVE ExpectWordReportsExpected(_, _)
\* expect_x reporting the character it wanted instead of the one it found
ExpectWordReportsExpected(p, word) ==
    IF word = <<>> THEN Ok(<<>>)
    ELSE LET ch == FirstChar(p)
         IN  IF ~ch.some THEN Err(UnexpectedEnd)
             ELSE IF ch.c # Head(word) THEN Err(UnexpectedToken(Head(word)))
             ELSE ExpectWordReportsExpected(From(p, ch.len), Tail(word))

\* for c in word { match iter.next() { ... } }
ExpectWord(p, word) ==
    IF word = <<>> THEN Ok(<<>>)
    ELSE LET ch == FirstChar(p)
         IN  IF ~ch.some THEN Err(UnexpectedEnd)
             ELSE IF ch.c # Head(word) THEN Err(UnexpectedToken(ch.c))
             ELSE ExpectWord(From(p, ch.len), Tail(word))

ExpectNull(p) == ExpectWord(p, <<"n", "u", "l", "l">>)
ExpectFalse(p) == ExpectWord(p, <<"f", "a", "l", "s", "e">>)
ExpectTrue(p) == ExpectWord(p, <<"t", "r", "u", "e">>)

StructuralOf(c) ==
    CASE c = "[" -> "BeginArray"
      [] c = "{" -> "BeginObject"
      [] c = "]" -> "EndArray"
      [] c = "}" -> "EndObject"
      [] c = ":" -> "NameSeparator"
      [] c = "," -> "ValueSeparator"

\* the arm of `match c` (tokenize.rs:26-83) that the byte c selects
ArmOf(c) ==
    CASE c \in Whitespace -> "whitespace"
      [] c \in {"[", "{", "]", "}", ":", ","} -> "structural"
      [] c = "\"" -> "string"
      [] c \in {"-"} \cup Digits -> "number"
      [] c = "f" -> "false"
      [] c = "n" -> "null"
      [] c = "t" -> "true"
      [] OTHER -> "other"

\* a keyword arm: expect_x(p)?; tokens.push(Token::X); p = &p[n..];
KeywordArm(r, toks, kind, n) ==
    IF r.tag = "Ok"
    THEN [st |-> "scan", adv |-> n, tokens |-> Append(toks, Tok(kind))]
    ELSE [st |-> "return", ret |-> r]

\* the string arm: let (cnt, s) = expect_string(p)?; push; p = &p[cnt..];
StringArm(r, toks) ==
    IF r.tag = "Ok"
    THEN [st |-> "scan", adv |-> r.cnt, tokens |-> Append(toks, StringTok(r.s))]
    ELSE [st |-> "return", ret |-> r]

\* the number arm: let (cnt, n) = expect_number(p)?; push; p = &p[cnt..];
NumberArm(r, toks) ==
    IF r.tag = "Ok"
    THEN [st |-> "scan", adv |-> r.cnt, tokens |-> Append(toks, NumberTok(r.n))]
    ELSE [st |-> "return", ret |-> r]

\* the arm a of `match c` on the non-empty p with the tokens toks
ArmStep(a, p, toks) ==
    CASE a = "whitespace" -> [st |-> "scan", adv |-> 1, tokens |-> toks]
      [] a = "structural" ->
            [st |-> "scan", adv |-> 1,
             tokens |-> Append(toks, Tok(StructuralOf(p[1])))]
      [] a = "string" -> StringArm(ExpectString(p), toks)
      [] a = "number" -> NumberArm(ExpectNumber(p), toks)
      [] a = "false" -> KeywordArm(ExpectFalse(p), toks, "False", 5)
      [] a = "null" -> KeywordArm(ExpectNull(p), toks, "Null", 4)
      [] a = "true" -> KeywordArm(ExpectTrue(p), toks, "True", 4)
      [] a = "other" ->
            [st |-> "return", ret |-> Err(UnexpectedToken(FirstChar(p).c))]

\* one iteration of tokenize's loop on the non-empty p with the tokens toks
ScanStep(p, toks) == ArmStep(ArmOf(p[1]), p, toks)

RECURSIVE TokenizeLoop(_, _, _), AfterStep(_, _, _)

\* the loop goes on after the iteration s, or tokenize returns
AfterStep(inp, n, s) ==
    IF s.st = "scan" THEN TokenizeLoop(inp, n + s.adv, s.tokens) ELSE s.ret

TokenizeLoop(inp, n, toks) ==
    IF n >= Len(inp) THEN Ok(toks)
    ELSE AfterStep(inp, n, ScanStep(From(inp, n), toks))

\* tokenize(input) as a function
Tokenize(inp) == TokenizeLoop(inp, 0, <<>>)

----------------------------------------------------------------------------
(* Values (json.rs:6-13).  A HashMap<String, Value> is a function from its *)
(* keys to their values.                                                   *)

VNull == [type |-> "Null"]
VBool(b) == [type |-> "Bool", b |-> b]
VNumber(n) == [type |-> "Number", n |-> n]
VString(s) == [type |-> "String", s |-> s]
VArray(a) == [type |-> "Array", elems |-> a]
VObject(o) == [type |-> "Object", map |-> o]

\* HashMap::new()
EmptyMap == [k \in {} |-> VNull]

\* an insert that keeps the value a key already has
InsertIfAbsent(o, k, v) ==
    [x \in DOMAIN o \cup {k} |-> IF x \in DOMAIN o THEN o[x] ELSE v]

\* o.insert(k, v)
Insert(o, k, v) ==
    [x \in DOMAIN o \cup {k} |-> IF x = k THEN v ELSE o[x]]

\* a push at the front of the vector
PushFront(a, v) == <<v>> \o a

\* a.push(v)
Push(a, v) == Append(a, v)

----------------------------------------------------------------------------
(* The parser (parse.rs).  Every production returns its Result and the     *)
(* caller's cursor (the &mut &[Token]) as it leaves it.                    *)

Ret(r, ts) == [res |-> r, rest |-> ts]

\* the match with its None arm folded into the Some(t) arm
ExpectKindNoEnd(ts, kind) ==
    IF ts # <<>> /\ Head(ts).kind = kind
    THEN [ok |-> TRUE, tok |-> Head(ts), rest |-> Tail(ts)]
    ELSE [ok |-> FALSE,
          ret |-> [res |-> Err(UnexpectedToken([text |-> <<>>])), rest |-> ts]]

\* match tokens.first() { Some(kind) => advance, Some(t) => Err(UnexpectedToken),
\*                        None => Err(UnexpectedEnd) }
ExpectKind(ts, kind) ==
    IF ts = <<>> THEN [ok |-> FALSE, ret |-> Ret(Err(UnexpectedEnd), ts)]
    ELSE IF Head(ts).kind = kind
    THEN [ok |-> TRUE, tok |-> Head(ts), rest |-> Tail(ts)]
    ELSE [ok |-> FALSE,
          ret |-> Ret(Err(UnexpectedToken(TokenToString(Head(ts)))), ts)]

\* if let Some(Token::EndX) = tokens.first()
AtEnd(ts, kind) == ts # <<>> /\ Head(ts).kind = kind

\* a separator taken wherever one stands, also before the first element
SeparatorAnywhere(ts, nonEmpty) ==
    IF nonEmpty \/ AtEnd(ts, "ValueSeparator")
    THEN ExpectKind(ts, "ValueSeparator")
    ELSE [ok |-> TRUE, rest |-> ts]

\* if !o.is_empty() / if !a.is_empty(): require a ValueSeparator
Separator(ts, nonEmpty) ==
    IF nonEmpty THEN ExpectKind(ts, "ValueSeparator")
    ELSE [ok |-> TRUE, rest |-> ts]

RECURSIVE ParseValue(_), ObjectLoop(_, _), ArrayLoop(_, _)

\* the loop of parse_object with the map o built so far
ObjectLoop(ts, o) ==
    IF AtEnd(ts, "EndObject") THEN Ret(Ok(VObject(o)), Tail(ts))
    ELSE LET sep == Separator(ts, DOMAIN o # {})
         IN  IF ~sep.ok THEN sep.ret
             ELSE LET key == ExpectKind(sep.rest, "String")
                  IN  IF ~key.ok THEN key.ret
                      ELSE LET colon == ExpectKind(key.rest, "NameSeparator")
                           IN  IF ~colon.ok THEN colon.ret
                               ELSE LET v == ParseValue(colon.rest)
                                    IN  IF v.res.tag # "Ok" THEN v
                                        ELSE ObjectLoop(v.rest,
                                                 Insert(o, key.tok.s, v.res.val))

\* the loop of parse_array with the elements a built so far
ArrayLoop(ts, a) ==
    IF AtEnd(ts, "EndArray") THEN Ret(Ok(VArray(a)), Tail(ts))
    ELSE LET sep == Separator(ts, a # <<>>)
         IN  IF ~sep.ok THEN sep.ret
             ELSE LET v == ParseValue(sep.rest)
                  IN  IF v.res.tag # "Ok" THEN v
                      ELSE ArrayLoop(v.rest, Push(a, v.res.val))

ParseObject(ts) ==
    LET open == ExpectKind(ts, "BeginObject")
    IN  IF ~open.ok THEN open.ret ELSE ObjectLoop(open.rest, EmptyMap)

ParseArray(ts) ==
    LET open == ExpectKind(ts, "BeginArray")
    IN  IF ~open.ok THEN open.ret ELSE ArrayLoop(open.rest, <<>>)

ParseValue(ts) ==
    IF ts = <<>> THEN Ret(Err(UnexpectedEnd), ts)
    ELSE LET t == Head(ts)
         IN  CASE t.kind = "Null" -> Ret(Ok(VNull), Tail(ts))
               [] t.kind = "False" -> Ret(Ok(VBool(FALSE)), Tail(ts))
               [] t.kind = "True" -> Ret(Ok(VBool(TRUE)), Tail(ts))
               [] t.kind = "Number" -> Ret(Ok(VNumber(t.n)), Tail(ts))
               [] t.kind = "String" -> Ret(Ok(VString(t.s)), Tail(ts))
               [] t.kind = "BeginObject" -> ParseObject(ts)
               [] t.kind = "BeginArray" -> ParseArray(ts)
               [] OTHER -> Ret(Err(UnexpectedToken(TokenToString(t))), ts)

\* what parse returns once parse_value left the cursor at v.rest
AfterValue(v) ==
    IF v.res.tag # "Ok" THEN v.res
    ELSE IF v.rest # <<>> THEN Err(UnexpectedNonWhitespace)
    ELSE v.res

\* parse(tokens)
Parse(ts) == AfterValue(ParseValue(ts))

----------------------------------------------------------------------------
(* The inputs a caller can hand over, within the bounds.                   *)

Pieces ==
    { <<" ">>,
      <<"[">>, <<"]">>, <<"{">>, <<"}">>, <<",">>,
      <<"\"">>, <<"\"", "k", "\"">>, <<"C3", "A9">>, <<"@">>,
      <<"-">>, <<"1">>, <<".">>, <<".", "1">>, <<"e">>,
      <<"e", "-", "1">>,
      <<"t", "r", "u", "e">>, <<"f", "a", "l", "s", "e">>,
      <<"n", "u", "l", "l">>,
      <<"t", "r", "u">>, <<"f", "a", "l", "s">>, <<"n", "u", "l">> }

RECURSIVE TextsOf(_)
\* the texts made of at most k pieces
TextsOf(k) ==
    IF k = 0 THEN {<<>>}
    ELSE LET S == TextsOf(k - 1)
         IN  S \cup {s \o q : s \in S, q \in Pieces}

Texts == TextsOf(MaxPieces)

Keys == {<<"k">>, <<"a">>}

TokenAlphabet ==
    {Tok(k) : k \in StructuralKinds \cup {"False", "Null", "True"}}
    \cup {NumberTok(F64(1)), NumberTok(F64(2))}
    \cup {StringTok(k) : k \in Keys}

\* one member `key : value` of a flat object
Members ==
    {<<StringTok(k), Tok("NameSeparator"), v>> :
        k \in Keys, v \in {NumberTok(F64(1)), NumberTok(F64(2)), Tok("Null")}}

RECURSIVE MemberLists(_)
\* the token runs `m , m , ... , m` of exactly k members
MemberLists(k) ==
    IF k = 1 THEN Members
    ELSE {l \o <<Tok("ValueSeparator")>> \o m : l \in MemberLists(k - 1), m \in Members}

\* the token slices of the flat objects of 2 .. MaxMembers members
ObjectDocs ==
    {<<Tok("BeginObject")>> \o l \o <<Tok("EndObject")>> :
        l \in UNION {MemberLists(k) : k \in 2 .. MaxMembers}}

\* parse_value has not rejected ts: it is one complete value or only lacks tokens
Viable(ts) ==
    LET v == ParseValue(ts)
    IN  \/ v.res.tag = "Ok" /\ v.rest = <<>>
        \/ v.res = Err(UnexpectedEnd)

----------------------------------------------------------------------------
(* The state machine.                                                      *)

InitText ==
    /\ input \in Texts
    /\ pos = 0
    /\ tokens = <<>>
    /\ arm = "none"
    /\ prev = 0
    /\ tokResult = None
    /\ slice = <<>>
    /\ rest = <<>>
    /\ call = "from_str"
    /\ result = None
    /\ pc = "scan"

InitTokens ==
    /\ input = <<>>
    /\ pos = 0
    /\ tokens = <<>>
    /\ arm = "none"
    /\ prev = 0
    /\ tokResult = None
    /\ slice \in {<<>>} \cup ObjectDocs
    /\ rest = slice
    /\ call = "none"
    /\ result = None
    /\ pc = "build"

Init == InitText \/ InitTokens

\* the iteration s moves the cursor, or ends tokenize and from_str by `?`
\* or by the panic of unwrap()
Advance(s) ==
    IF s.st = "scan"
    THEN /\ pos' = pos + s.adv
         /\ tokens' = s.tokens
         /\ UNCHANGED <<tokResult, result, pc>>
    ELSE /\ tokResult' = s.ret
         /\ result' = s.ret
         /\ pc' = "done"
         /\ UNCHANGED <<pos, tokens>>

\* one iteration of `while let Some(&c) = p.as_bytes().first()` through arm a
Iterate(a) ==
    /\ ArmOf(input[pos + 1]) = a
    /\ arm' = a
    /\ prev' = pos
    /\ Advance(ScanStep(From(input, pos), tokens))
    /\ UNCHANGED <<input, slice, rest, call>>

\* the loop has a byte to look at
InLoop == pc = "scan" /\ pos < Len(input)

SkipWhitespace ==
    /\ InLoop
    /\ Iterate("whitespace")

PushStructural ==
    /\ InLoop
    /\ Iterate("structural")

ScanString ==
    /\ InLoop
    /\ Iterate("string")

ScanNumber ==
    /\ InLoop
    /\ Iterate("number")

ScanFalse ==
    /\ InLoop
    /\ Iterate("false")

ScanNull ==
    /\ InLoop
    /\ Iterate("null")

ScanTrue ==
    /\ InLoop
    /\ Iterate("true")

RejectChar ==
    /\ InLoop
    /\ Iterate("other")

\* the loop ends: Ok(tokens)
TokenizeReturn ==
    /\ pc = "scan"
    /\ pos >= Len(input)
    /\ tokResult' = Ok(tokens)
    /\ pc' = "tokenized"
    /\ UNCHANGED <<input, pos, tokens, arm, prev, slice, rest, call, result>>

\* from_str: let value = parse(&tokens)?; Ok(value)
FromStrParse ==
    /\ pc = "tokenized"
    /\ slice' = tokens
    /\ rest' = tokens
    /\ result' = Parse(tokens)
    /\ pc' = "done"
    /\ UNCHANGED <<input, pos, tokens, arm, prev, tokResult, call>>

\* a caller assembling a token slice appends one token; it stops extending a
\* slice that parse_value already rejects, since the parser reads no token
\* past the first one it rejects
BuildToken ==
    /\ pc = "build"
    /\ Len(slice) < MaxTokens
    /\ Viable(slice)
    /\ \E t \in TokenAlphabet :
          /\ slice' = Append(slice, t)
          /\ rest' = Append(slice, t)
    /\ UNCHANGED <<input, pos, tokens, arm, prev, tokResult, call, result, pc>>

\* parse(&slice)
CallParse ==
    /\ pc = "build"
    /\ call' = "parse"
    /\ result' = Parse(slice)
    /\ pc' = "done"
    /\ UNCHANGED <<input, pos, tokens, arm, prev, tokResult, slice, rest>>

\* parse_value(&mut slice)
CallParseValue ==
    /\ pc = "build"
    /\ call' = "parse_value"
    /\ result' = ParseValue(slice).res
    /\ rest' = ParseValue(slice).rest
    /\ pc' = "done"
    /\ UNCHANGED <<input, pos, tokens, arm, prev, tokResult, slice>>

Next ==
    \/ SkipWhitespace
    \/ PushStructural
    \/ ScanString
    \/ ScanNumber
    \/ ScanFalse
    \/ ScanNull
    \/ ScanTrue
    \/ RejectChar
    \/ TokenizeReturn
    \/ FromStrParse
    \/ BuildToken
    \/ CallParse
    \/ CallParseValue

Spec == Init /\ [][Next]_vars

----------------------------------------------------------------------------
(* Vocabulary of the properties: token positions found by counting         *)
(* brackets, independently of the parser.                                  *)

\* parse or from_str has returned from its call of parse
Parsed ==
    /\ pc = "done"
    /\ call \in {"parse", "from_str"}
    /\ tokResult.tag \in {"None", "Ok"}

\* the first n tokens of ts
Prefix(ts, n) == SubSeq(ts, 1, n)

RECURSIVE DepthAfter(_, _)
\* the bracket depth after the first i tokens of ts
DepthAfter(ts, i) ==
    IF i = 0 THEN 0
    ELSE DepthAfter(ts, i - 1)
         + (IF ts[i].kind \in {"BeginArray", "BeginObject"} THEN 1
            ELSE IF ts[i].kind \in {"EndArray", "EndObject"} THEN -1
            ELSE 0)

\* the positions where the bracket opened by ts[1] could close
Closers(ts) ==
    {i \in 1 .. Len(ts) :
        /\ DepthAfter(ts, i) = 0
        /\ \A j \in 1 .. (i - 1) : DepthAfter(ts, j) > 0}

\* the position of the End token matching ts[1]
MatchEnd(ts) == CHOOSE i \in Closers(ts) : TRUE

\* where the elements of the array opened by ts[1] start
ElemStarts(ts) ==
    {j \in 2 .. (MatchEnd(ts) - 1) :
        /\ DepthAfter(ts, j - 1) = 1
        /\ j = 2 \/ ts[j - 1].kind = "ValueSeparator"}

\* where the keys of the object opened by ts[1] stand
KeyPositions(ts) ==
    {j \in 2 .. (MatchEnd(ts) - 2) :
        /\ DepthAfter(ts, j - 1) = 1
        /\ ts[j].kind = "String"
        /\ ts[j + 1].kind = "NameSeparator"}

\* the number of elements of S below j
Rank(S, j) == Cardinality({i \in S : i < j})

\* the last position of the key k
LastKey(ts, k) ==
    CHOOSE j \in KeyPositions(ts) :
        /\ ts[j].s = k
        /\ \A i \in KeyPositions(ts) : ts[i].s = k => i <= j

\* ts with every string payload replaced by the one text "k"
SameKeys(ts) ==
    [i \in 1 .. Len(ts) |->
        IF ts[i].kind = "String" THEN StringTok(<<"k">>) ELSE ts[i]]

ValueStartKinds ==
    {"Null", "False", "True", "Number", "String", "BeginArray", "BeginObject"}

\* the text inp with the bytes w inserted after its first n bytes
InsertAt(inp, n, w) == SubSeq(inp, 1, n) \o w \o From(inp, n)

RECURSIVE CutsFrom(_, _)
\* the cursor positions of tokenize's loop from n on: the places before,
\* between and after the lexemes of inp
CutsFrom(inp, n) ==
    IF n >= Len(inp) THEN {n}
    ELSE LET st == ScanStep(From(inp, n), <<>>)
         IN  IF st.st = "scan" THEN {n} \cup CutsFrom(inp, n + st.adv)
             ELSE {n}

\* the word of a keyword arm and the token it pushes
KeywordArms == {"false", "null", "true"}
WordOf(a) ==
    CASE a = "false" -> <<"f", "a", "l", "s", "e">>
      [] a = "null" -> <<"n", "u", "l", "l">>
      [] a = "true" -> <<"t", "r", "u", "e">>
KindOf(a) ==
    CASE a = "false" -> "False" [] a = "null" -> "Null" [] a = "true" -> "True"

\* the indices of word at which the text at the cursor n does not spell it
Diverging(inp, n, word) ==
    {i \in 1 .. Len(word) : n + i > Len(inp) \/ inp[n + i] # word[i]}

\* the first of them
FirstDiverging(inp, n, word) ==
    CHOOSE i \in Diverging(inp, n, word) :
        \A j \in Diverging(inp, n, word) : i <= j

\* the last iteration was a keyword arm that met a character other than
\* the keyword's, at index i of the keyword
KeywordMismatchAt(i) ==
    /\ arm \in KeywordArms
    /\ Diverging(input, prev, WordOf(arm)) # {}
    /\ i = FirstDiverging(input, prev, WordOf(arm))
    /\ prev + i <= Len(input)

\* the last iteration was a keyword arm that met the end of the text
KeywordCutShort ==
    /\ arm \in KeywordArms
    /\ Diverging(input, prev, WordOf(arm)) # {}
    /\ prev + FirstDiverging(input, prev, WordOf(arm)) > Len(input)

\* the last iteration was a keyword arm and the keyword is spelled out
KeywordSpelled ==
    /\ arm \in KeywordArms
    /\ Diverging(input, prev, WordOf(arm)) = {}

\* the keyword arm pushed its token and moved the cursor over the keyword
KeywordEmitted ==
    /\ tokResult.tag \in {"None", "Ok"}
    /\ pos = prev + Len(WordOf(arm))
    /\ tokens # <<>>
    /\ tokens[Len(tokens)] = Tok(KindOf(arm))

\* s from index i to its end is ('e' ('+'|'-')? digit+)?
JsonExponent(s, i) ==
    \/ i = Len(s) + 1
    \/ /\ i <= Len(s)
       /\ s[i] = "e"
       /\ LET j == IF i + 1 <= Len(s) /\ s[i + 1] \in {"+", "-"}
                   THEN i + 2 ELSE i + 1
          IN  DigitRun(s, j) >= 1 /\ j + DigitRun(s, j) = Len(s) + 1

\* s from index i to its end is digit+ ('.' digit+)? ('e' ('+'|'-')? digit+)?
JsonUnsigned(s, i) ==
    LET k == i + DigitRun(s, i)
    IN  /\ k > i
        /\ IF k <= Len(s) /\ s[k] = "."
           THEN /\ DigitRun(s, k + 1) >= 1
                /\ JsonExponent(s, k + 1 + DigitRun(s, k + 1))
           ELSE JsonExponent(s, k)

\* s is '-'? digit+ ('.' digit+)? ('e' ('+'|'-')? digit+)?
JsonNumber(s) ==
    IF Len(s) >= 1 /\ s[1] = "-" THEN JsonUnsigned(s, 2) ELSE JsonUnsigned(s, 1)

\* the last iteration was the number arm and it pushed a Number token
NumberEmitted ==
    /\ arm = "number"
    /\ tokResult.tag \in {"None", "Ok"}

----------------------------------------------------------------------------
(* The claims.                                                             *)

\* C1: parse returns Ok only when every token was consumed, and when a
\* complete value is followed by further tokens it returns
\* Err(UnexpectedToken) naming the first trailing token; it returns a
\* Result in every case.
C1_TrailingTokenIsUnexpectedToken ==
    Parsed =>
        LET v == ParseValue(slice)
        IN  /\ result.tag \in {"Ok", "Err"}
            /\ result.tag = "Ok" => v.rest = <<>>
            /\ (v.res.tag = "Ok" /\ v.rest # <<>>) =>
                  result = Err(UnexpectedToken(TokenToString(Head(v.rest))))

\* C2: parse_value dispatches on the kind of the first token: a scalar
\* token gives its Value and consumes exactly that token; BeginArray gives
\* the Array of the elements up to the matching EndArray, in token order;
\* BeginObject gives an Object with the keys up to the matching EndObject;
\* any other first token gives Err(UnexpectedToken) and no token gives
\* Err(UnexpectedEnd).
C2_ParseValueDispatch ==
    (pc = "done" /\ call = "parse_value") =>
        IF slice = <<>> THEN result = Err(UnexpectedEnd) /\ rest = <<>>
        ELSE LET t == slice[1]
                 starts == ElemStarts(slice)
             IN  /\ t.kind = "Null" => result = Ok(VNull) /\ rest = Tail(slice)
                 /\ t.kind = "False" =>
                       result = Ok(VBool(FALSE)) /\ rest = Tail(slice)
                 /\ t.kind = "True" =>
                       result = Ok(VBool(TRUE)) /\ rest = Tail(slice)
                 /\ t.kind = "Number" =>
                       result = Ok(VNumber(t.n)) /\ rest = Tail(slice)
                 /\ t.kind = "String" =>
                       result = Ok(VString(t.s)) /\ rest = Tail(slice)
                 /\ t.kind \in {"EndArray", "EndObject", "NameSeparator",
                                "ValueSeparator"} =>
                       /\ result.tag = "Err"
                       /\ result.err.kind = "UnexpectedToken"
                       /\ rest = slice
                 /\ (t.kind = "BeginArray" /\ result.tag = "Ok") =>
                       /\ result.val.type = "Array"
                       /\ rest = From(slice, MatchEnd(slice))
                       /\ Len(result.val.elems) = Cardinality(starts)
                       /\ \A j \in starts :
                             result.val.elems[Rank(starts, j) + 1]
                                 = ParseValue(From(slice, j - 1)).res.val
                 /\ (t.kind = "BeginObject" /\ result.tag = "Ok") =>
                       /\ result.val.type = "Object"
                       /\ rest = From(slice, MatchEnd(slice))
                       /\ DOMAIN result.val.map
                             = {slice[j].s : j \in KeyPositions(slice)}

C2_Witness ==
    /\ pc = "done"
    /\ call = "parse_value"
    /\ Len(slice) = 5
    /\ slice[1].kind = "BeginArray"
    /\ result = Ok(VArray(<<VNumber(F64(1)), VNull>>))

\* C3: an object that parses maps each of its keys, once, to the value of
\* the textually last member with that key; repeating a key never turns a
\* document that parses into an error.
C3_LastWriteWins ==
    (Parsed /\ result.tag = "Ok" /\ slice[1].kind = "BeginObject") =>
        /\ result.val.type = "Object"
        /\ DOMAIN result.val.map = {slice[j].s : j \in KeyPositions(slice)}
        /\ \A k \in DOMAIN result.val.map :
              result.val.map[k]
                  = ParseValue(From(slice, LastKey(slice, k) + 1)).res.val
        /\ Parse(SameKeys(slice)).tag = "Ok"

C3_Witness ==
    /\ Parsed
    /\ Len(slice) = 9
    /\ slice[2] = StringTok(<<"k">>)
    /\ slice[4] = NumberTok(F64(1))
    /\ slice[6] = StringTok(<<"k">>)
    /\ slice[8] = NumberTok(F64(2))
    /\ result = Ok(VObject([x \in {<<"k">>} |-> VNumber(F64(2))]))

\* the call failed with Err(UnexpectedToken(_))
FailsWithUnexpectedToken ==
    result.tag = "Err" /\ result.err.kind = "UnexpectedToken"

\* C4: in a document that is well formed up to there, a ValueSeparator
\* followed by EndArray/EndObject, a ValueSeparator right after
\* BeginArray/BeginObject and an element that follows an element without a
\* ValueSeparator each make parse fail with Err(UnexpectedToken); [] and {}
\* parse.
C4_SeparatorOnlyBetweenElements ==
    Parsed =>
        /\ \A i \in 1 .. (Len(slice) - 1) :
              Parse(Prefix(slice, i)) = Err(UnexpectedEnd) =>
                 /\ (/\ slice[i].kind = "ValueSeparator"
                     /\ slice[i + 1].kind \in {"EndArray", "EndObject"}) =>
                       FailsWithUnexpectedToken
                 /\ (/\ slice[i].kind \in {"BeginArray", "BeginObject"}
                     /\ slice[i + 1].kind = "ValueSeparator") =>
                       FailsWithUnexpectedToken
                 /\ (/\ Parse(Append(Prefix(slice, i), Tok("ValueSeparator")))
                           = Err(UnexpectedEnd)
                     /\ slice[i + 1].kind \in ValueStartKinds) =>
                       FailsWithUnexpectedToken
        /\ slice = <<Tok("BeginArray"), Tok("EndArray")>> =>
              result = Ok(VArray(<<>>))
        /\ slice = <<Tok("BeginObject"), Tok("EndObject")>> =>
              result = Ok(VObject(EmptyMap))

C4_Witness ==
    /\ Parsed
    /\ call = "parse"
    /\ Len(slice) = 6
    /\ slice[1].kind = "BeginObject"
    /\ slice[5].kind = "ValueSeparator"
    /\ slice[6].kind = "EndObject"
    /\ result.tag = "Err"
    /\ result.err.kind = "UnexpectedToken"

\* C5: when parse returns Ok for a token sequence, it returns
\* Err(UnexpectedEnd) for every proper prefix of it, the empty one
\* included; the tokens of `[1,` and of `{` give Err(UnexpectedEnd).
C5_PrefixIsUnexpectedEnd ==
    Parsed =>
        /\ result.tag = "Ok" =>
              \A n \in 0 .. (Len(slice) - 1) :
                  Parse(Prefix(slice, n)) = Err(UnexpectedEnd)
        /\ (/\ Len(slice) = 3
            /\ slice[1].kind = "BeginArray"
            /\ slice[2].kind = "Number"
            /\ slice[3].kind = "ValueSeparator") =>
              result = Err(UnexpectedEnd)
        /\ slice = <<Tok("BeginObject")>> => result = Err(UnexpectedEnd)

C5_Witness ==
    /\ Parsed
    /\ call = "parse"
    /\ result.tag = "Ok"
    /\ Len(slice) = 6
    /\ slice[1].kind = "BeginObject"
    /\ slice[4].kind = "BeginArray"

\* C6: a character that starts no lexeme makes tokenize fail with
\* Err(UnexpectedChar(c)) carrying that character.
C6_OtherCharIsUnexpectedChar ==
    arm = "other" =>
        tokResult = Err(UnexpectedChar(FirstChar(From(input, prev)).c))

\* C7 as stated: at f, n or t tokenize emits False/Null/True exactly when
\* the next 5/4/4 characters spell the keyword, moving the cursor by that
\* length; otherwise, the keyword being cut short or mismatched, it fails
\* with an UnexpectedChar/UnexpectedToken error carrying the first
\* character that diverges from the keyword.
C7_PartialKeywordNamesACharacter ==
    arm \in KeywordArms =>
        IF KeywordSpelled THEN KeywordEmitted
        ELSE /\ tokResult.tag = "Err"
             /\ tokResult.err.kind \in {"UnexpectedChar", "UnexpectedToken"}
             /\ \E i \in 1 .. Len(WordOf(arm)) :
                   /\ i = FirstDiverging(input, prev, WordOf(arm))
                   /\ prev + i <= Len(input)
                   /\ tokResult.err.arg = FirstChar(From(input, prev + i - 1)).c

\* C7 amended: at f, n or t tokenize emits False/Null/True exactly when the
\* next 5/4/4 characters spell the keyword, moving the cursor by that
\* length; a character that diverges from the keyword makes it fail with an
\* UnexpectedChar/UnexpectedToken error carrying that first diverging
\* character, and a text that ends inside the keyword makes it fail with
\* UnexpectedEnd.
C7_KeywordWholeOrError ==
    arm \in KeywordArms =>
        /\ KeywordSpelled => KeywordEmitted
        /\ \A i \in 1 .. Len(WordOf(arm)) :
              KeywordMismatchAt(i) =>
                 /\ tokResult.tag = "Err"
                 /\ tokResult.err.kind \in {"UnexpectedChar", "UnexpectedToken"}
                 /\ tokResult.err.arg = FirstChar(From(input, prev + i - 1)).c
        /\ KeywordCutShort => tokResult = Err(UnexpectedEnd)

C7_Witness ==
    /\ arm = "null"
    /\ prev = 1
    /\ KeywordMismatchAt(4)
    /\ tokResult.tag = "Err"
    /\ tokResult.err.arg = "U+00E9"

\* C8: whitespace is skipped: when tokenize returns Ok(tokens), the text
\* with one more space, tab, line feed or carriage return before, between
\* or after its lexemes gives the same tokens; a text of whitespace only
\* gives no token.
C8_WhitespaceIsSkipped ==
    pc = "tokenized" =>
        /\ \A n \in CutsFrom(input, 0) : \A w \in {" ", "\t", "\n", "\r"} :
              Tokenize(InsertAt(input, n, <<w>>)) = Ok(tokens)
        /\ (\A i \in 1 .. Len(input) : input[i] \in {" ", "\t", "\n", "\r"}) =>
              tokens = <<>>

C8_Witness ==
    /\ pc = "tokenized"
    /\ input = <<"[", " ", "1">>
    /\ tokens = <<Tok("BeginArray"), NumberTok(F64(1))>>

\* C9: every Number token comes from a lexeme that matches
\* '-'? digit+ ('.' digit+)? ('e' ('+'|'-')? digit+)? and is the longest
\* run at the cursor that does.
C9_NumberLexemeMatchesGrammar ==
    NumberEmitted =>
        /\ JsonNumber(SubSeq(input, prev + 1, pos))
        /\ \A m \in (pos + 1) .. Len(input) :
              ~JsonNumber(SubSeq(input, prev + 1, m))

\* C10: every iteration of tokenize's loop moves the cursor forward and
\* tokenize ends by returning Ok or Err: no text makes it abort.
C10_TokenizeIsTotal ==
    /\ (arm # "none" /\ tokResult.tag \in {"None", "Ok"}) => pos > prev
    /\ tokResult.tag \in {"None", "Ok", "Err"}
    /\ (pc = "done" /\ call = "from_str") => result.tag \in {"Ok", "Err"}

====
